---- MODULE Spec2Model ----
(***************************************************************************)
(* Model of the ZStack AI assistant's orchestration machinery:             *)
(*   - LLMEngine.chat() of the streaming engine (multi-round tool loop,    *)
(*     cancellation, round / time budgets, parallel tool fan-out);         *)
(*   - LLMEngine.chat() of the non-streaming engine (extension/lib/llm.js);*)
(*   - the ZStackClient request wrapper (_withRetry / _relogin / login).   *)
(* An action is one run of JavaScript from one suspension point (await) to *)
(* the next: the event loop interleaves nothing inside it.                 *)
(***************************************************************************)
EXTENDS Naturals, Sequences, FiniteSets

VARIABLES
  messages,        \* LLMEngine.messages: the conversation, a sequence of turns
  provider,        \* LLMEngine.provider
  abortController, \* LLMEngine._abortController is non-null
  pc,              \* where chat() is suspended: idle, fetch, fallback, stream, tools, done
  i,               \* loop counter of chat()
  aborted,         \* signal.aborted of the token created by this chat()
  elapsed,         \* latest value read for Date.now() - startTime
  content,         \* adapter: text deltas of the response were accumulated
  acc,             \* adapter: tool calls accumulated from the response being read
  toolCalls,       \* chat(): response.toolCalls of the latest round that had any
  results,         \* fan-out: per call, "pending" or the content of its result entry
  order,           \* fan-out: call positions in the order their promises settled
  threw,           \* fan-out: positions whose Resource Client call threw
  ret,             \* how chat() ended: none, final, partial, stopped, timeout, roundlimit, thrown
  adapterCalls,    \* number of adapter invocations made by this chat()
  abortAt,         \* suspension point at which abort() was invoked (none if never)
  callsAtAbort,    \* adapterCalls when abort() was invoked
  roundStartLen,   \* Len(messages) when the adapter of the current round was invoked
  batchAt,         \* index in messages of the latest tool-call-request turn
  before,          \* the conversation when chat() was called
  script,          \* behaviour of the model behind the provider: looping, free or rich
  queryMode,       \* LLMEngine.queryMode
  sizes,           \* fan-out: per call, the length of its result content (0: pending)
  longest,         \* largest length of a tool-result content appended by this chat()
  authFailed,      \* a client call of this chat() threw because the re-login failed
  emitted,         \* a text event was emitted for the text of the current response
  model,           \* LLMEngine.model (set together with baseUrl by configure())
  roundModel,      \* LLMEngine.model when the adapter of the current round was invoked
  roundMode,       \* LLMEngine.queryMode when the adapter of the current round was invoked
  fallbackModel,   \* model named by the non-streaming request of this round (none: not sent)
  truncateLimit,   \* fan-out: the local truncateLimit of the latest fan-out (0: none yet)
  toolEvents,      \* tool_start / tool_done events emitted by this chat(): counts, last round
  sessionId,       \* ZStackClient.sessionId: 0 for null, else the token held
  credentials,     \* ZStackClient._accountName and _password are cached
  relogging,       \* ZStackClient._relogging
  req,             \* the requests made through the client, per request id
  login,           \* the login() call made by the application
  nextToken,       \* server: the session token the next successful login returns
  texts,           \* provider: per tool call of the turn, its argument text
  progress,        \* provider: per tool call, what has been sent of it (frags: 2 for several)
  blocks,          \* adapter: toolCalls[] / contentBlocks[], per call index
  currentBlockIndex, \* Anthropic adapter: currentBlockIndex (0: none yet)
  inputJsonStr,    \* Anthropic adapter: inputJsonStr
  spc,             \* the adapter is reading the stream, or chat() has parsed the calls
  dispatched,      \* per call, the arguments chat() passes to Tool Dispatch
  interleaved,     \* events of one call were sent while another call was open
  lines,           \* adapter: text deltas accumulated, kinds of lines skipped, line it threw on
  tName,           \* _executeTool: the name argument
  tPath,           \* _executeTool: args.resource_path, a sequence of characters
  tConnected,      \* _executeTool: a client is configured and holds a session token
  tSent,           \* _executeTool: the Resource Client call it made (none: no call)
  tResult,         \* _executeTool: how its promise settled and the payload it carries
  tpc,             \* _executeTool: called, awaiting the client, or settled
  endpoint,        \* ZStackClient.endpoint
  issued,          \* server: per session token issued, the endpoint that issued it
  getCall,         \* ZStackClient.get: the response data and what get() returned
  connect,         \* side panel: environments, currentEnvId, stored settings, connectZStack
  reads            \* adapter read loop: the byte stream, the buffer, the lines processed

engineVars == <<messages, provider, abortController, pc, i, aborted, elapsed, content,
                acc, toolCalls, results, order, threw, ret, adapterCalls, abortAt,
                callsAtAbort, roundStartLen, batchAt, before, script,
                queryMode, sizes, longest, authFailed, emitted,
                model, roundModel, roundMode, fallbackModel, truncateLimit, toolEvents>>

payloadVars == <<queryMode, sizes, longest, authFailed>>

configVars == <<model, roundModel, roundMode, fallbackModel, truncateLimit>>

clientVars == <<sessionId, credentials, relogging, req, login, nextToken>>

streamVars == <<texts, progress, blocks, currentBlockIndex, inputJsonStr, spc,
                dispatched, interleaved, lines>>

toolVars == <<tName, tPath, tConnected, tSent, tResult, tpc>>

siteVars == <<endpoint, issued>>

moreVars == <<getCall, connect, reads>>

vars == <<engineVars, clientVars, streamVars, toolVars, siteVars, moreVars>>

(***************************************************************************)
(* Bounds of the model and constants of the program.                       *)
(***************************************************************************)
\* Rounds in which a free model may propose tool calls before it has to answer.
FreeRounds == 1
\* Largest number of tool calls in one assistant turn.
MaxCalls == 2

maxRounds == 100
timeoutMs == 5 * 60 * 1000

\* Representative clock readings: start, exactly the budget, just beyond it.
TimePoints == {0, timeoutMs, timeoutMs + 1}

OPENAI_COMPAT == {"openai", "glm", "deepseek", "qwen", "minimax"}
Providers == {"openai", "anthropic"}

StopMessage == "stopped"
TimeoutMessage == "timeout"
RoundLimitMessage == "roundlimit"

(***************************************************************************)
(* Turns of the conversation.  ids: the call ids a turn carries; res: the  *)
(* content of the tool results it carries.                                 *)
(***************************************************************************)
UserTurn == [kind |-> "user", ids |-> <<>>, res |-> <<>>]
AssistantTurn == [kind |-> "assistant", ids |-> <<>>, res |-> <<>>]

\* An assistant turn recording the raw tool-call request.
ToolCallTurn(calls) ==
  [kind |-> "tool_calls", ids |-> [k \in 1..Len(calls) |-> calls[k].id], res |-> <<>>]

\* Conversations a chat() can start from.
PriorConversations == {<<>>, <<UserTurn, AssistantTurn>>}

(***************************************************************************)
(* Decisions of chat().                                                    *)
(***************************************************************************)
RoundAllowedLoose(n) == n <= maxRounds
RoundAllowed(n) == n < maxRounds

TimedOutNever(t) == FALSE
TimedOut(t) == t > timeoutMs

IsAnthropic(p) == p = "anthropic" /\ p \notin OPENAI_COMPAT

\* The top of round n: abort check, then budget check, then the adapter.
TopOutcomeNoAbortCheck(n, ab, t) ==
  IF ~RoundAllowed(n) THEN RoundLimitMessage
  ELSE IF TimedOut(t) THEN TimeoutMessage
  ELSE "dispatch"
TopOutcome(n, ab, t) ==
  IF ~RoundAllowed(n) THEN RoundLimitMessage
  ELSE IF ab THEN StopMessage
  ELSE IF TimedOut(t) THEN TimeoutMessage
  ELSE "dispatch"

\* catch (e) of chat(): an AbortError becomes the stop message, anything else is rethrown.
CatchOutcome(errName) == IF errName = "AbortError" THEN StopMessage ELSE "thrown"

\* The conversation chat() leaves when the adapter call is rejected by the abort:
\* nothing of the interrupted round is recorded.
AbortedConversationKeepPartial(msgs, cont) ==
  IF cont THEN Append(msgs, AssistantTurn) ELSE msgs
AbortedConversationRolledBack(msgs, cont) == SubSeq(msgs, 1, Len(msgs) - 1)
AbortedConversation(msgs, cont) == msgs

(***************************************************************************)
(* Tool dispatch and the fan-out.                                          *)
(***************************************************************************)
\* JSON.parse of an argument text.
JsonParses(args) == args # "garbage"

\* Anthropic adapter, content_block_stop: unparsable input text becomes {}.
ParseInput(args) == IF JsonParses(args) THEN args ELSE "empty"

\* _executeTool: a throwing client call is captured as an {error} payload.
ExecuteToolSwallow(outcome) == "result"
ExecuteTool(outcome) == IF outcome \in {"throw", "reauth_failed"} THEN "error" ELSE "result"

\* The result content the map callback produces before awaiting anything, or
\* "pending" when it awaits _executeTool.
InitialResult(p, call) ==
  IF ~IsAnthropic(p) /\ ~JsonParses(call.args) THEN "parse_error" ELSE "pending"

\* Entries pushed after Promise.all: the results array is in call order.
ResultTurnsBySettling(p, calls, res, ord) ==
  IF IsAnthropic(p)
  THEN << [kind |-> "tool_results",
           ids |-> [k \in 1..Len(ord) |-> calls[ord[k]].id],
           res |-> [k \in 1..Len(ord) |-> res[ord[k]]]] >>
  ELSE [k \in 1..Len(ord) |->
          [kind |-> "tool", ids |-> <<calls[ord[k]].id>>, res |-> <<res[ord[k]]>>]]
ResultTurns(p, calls, res, ord) ==
  IF IsAnthropic(p)
  THEN << [kind |-> "tool_results",
           ids |-> [k \in 1..Len(calls) |-> calls[k].id],
           res |-> [k \in 1..Len(calls) |-> res[k]]] >>
  ELSE [k \in 1..Len(calls) |->
          [kind |-> "tool", ids |-> <<calls[k].id>>, res |-> <<res[k]>>]]

Pending(res) == {k \in 1..Len(res) : res[k] = "pending"}

\* The model behind the provider.  A looping model requests one well-formed tool
\* call in every round and the call succeeds; a free model requests any batch of
\* calls, with any argument text and any outcome, for FreeRounds rounds; a rich
\* model requests one call per round for FreeRounds rounds, and its calls meet
\* payloads of any length and failing re-logins.  With a hands-on user the
\* model requests one well-formed, succeeding call per round for FreeRounds
\* rounds, while the user presses stop before asking, saves new settings
\* during the chat, and asks again after stopping the first request at once.
Scripts == {"looping", "free", "rich", "hands_on"}
CallLimit(sc, n) ==
  IF sc = "looping" THEN 1
  ELSE IF n < FreeRounds THEN (IF sc \in {"rich", "hands_on"} THEN 1 ELSE MaxCalls)
  ELSE 0
ArgTexts(sc) == IF sc \in {"looping", "hands_on"} THEN {"json"} ELSE {"json", "garbage"}
ToolOutcomes(sc) ==
  IF sc \in {"looping", "hands_on"} THEN {"ok"}
  ELSE IF sc = "rich" THEN {"ok", "throw", "reauth_failed"}
  ELSE {"ok", "throw"}

(***************************************************************************)
(* Truncation of tool-result contents.                                     *)
(***************************************************************************)
QueryModes == {"compact", "full"}

\* truncateLimit of the fan-out.
TruncateLimit(mode) == IF mode = "full" THEN 80000 ELSE 30000

\* JSON.stringify(result).slice(0, truncateLimit): the length of the content.
SliceNone(len, limit) == len
Slice(len, limit) == IF len < limit THEN len ELSE limit

\* Length of JSON.stringify({ error: e.message }) for the SyntaxError of JSON.parse.
ParseErrorLen == 120
SmallLen == 2

\* Lengths of JSON.stringify(result) for the results of _executeTool.
PayloadLens(sc) == IF sc = "rich" THEN {SmallLen, 30001, 80001} ELSE {SmallLen}
ModesOf(sc) == IF sc \in {"rich", "hands_on"} THEN QueryModes ELSE {"compact"}

\* Values of LLMEngine.model: the one configured before the chat and the one
\* the user saves during it.
Models == {"m1", "m2"}

\* The tool_start / tool_done events of a chat(): how many of each were
\* emitted and the round number the latest of each carried.
NoEvents == [starts |-> 0, startRound |-> 0, dones |-> 0, doneRound |-> 0]

\* round: i + 1 in the payload of both events.
RoundNumberZeroBased(n) == n
RoundNumber(n) == n + 1

EmitToolStart(ev, n) == [ev EXCEPT !.starts = @ + 1, !.startRound = RoundNumber(n)]
EmitToolDone(ev, n) == [ev EXCEPT !.dones = @ + 1, !.doneRound = RoundNumber(n)]

\* Length of the result content a call has before anything is awaited.
InitialSize(r) == IF r = "parse_error" THEN ParseErrorLen ELSE 0

RECURSIVE MaxOf(_, _)
MaxOf(seq, m) ==
  IF seq = <<>> THEN m
  ELSE MaxOf(Tail(seq), IF Head(seq) > m THEN Head(seq) ELSE m)

(***************************************************************************)
(* The Resource Client: data of the request wrapper.                       *)
(***************************************************************************)
\* Number of API requests made through the client.
MaxReq == 2
Requests == 1..MaxReq

\* Error responses of the server: the HTTP status and the words of
\* error.details (empty when the body carries no usable message).
ErrorResponses ==
  { [status |-> "401", details |-> <<"Session", "expired">>],
    [status |-> "401", details |-> <<"unauthorized">>],
    [status |-> "403", details |-> <<>>],
    [status |-> "500", details |-> <<"token", "quota", "exceeded">>],
    [status |-> "500", details |-> <<"internal", "error">>] }
NoError == [status |-> "", details |-> <<>>]

\* _handleResponse: the message of the Error thrown for a non-ok response.
HandleResponseMessage(e) ==
  IF e.details # <<>> THEN e.details ELSE <<"HTTP", e.status>>

ToLowerCase(w) ==
  IF w = "Session" THEN "session" ELSE IF w = "HTTP" THEN "http" ELSE w

Includes(msg, w) == \E k \in DOMAIN msg : ToLowerCase(msg[k]) = w

\* _withRetry: does the caught error look like a session expiry.
IsExpiry(msg) ==
  \/ Includes(msg, "session")
  \/ Includes(msg, "token")
  \/ Includes(msg, "401")
  \/ Includes(msg, "403")

\* _isSessionExpired: the classification by status and by the words of the
\* error text.
IsSessionExpired(e) ==
  \/ e.status \in {"401", "403"}
  \/ Includes(e.details, "session") /\
       (Includes(e.details, "expired") \/ Includes(e.details, "invalid"))
  \/ Includes(e.details, "token") /\ Includes(e.details, "invalid")

\* _relogin: the token held while the login is in flight (this.sessionId = null).
ReloginSessionKept(sid) == sid
ReloginSession(sid) == 0

\* _withRetry: the guard of the re-login.
ShouldRelogin(msg, relog) == IsExpiry(msg) /\ ~relog

\* _relogin: the early return.
CanRelogin(relog, creds) == ~(relog \/ ~creds)

\* _withRetry wraps requestFn once: only the first attempt's failure is caught.
WrappedAlways(n) == n <= 2
Wrapped(n) == n = 1

\* _withRetry: requestFn is called again only when _relogin() returned true.
RetryAfterAny(ok) == TRUE
RetryAfter(ok) == ok

\* _relogin: the finally block clears _relogging on both outcomes.
ReloggingAfterFailure(ok) == ~ok
ReloggingAfter(ok) == FALSE

\* _rawPost: a login request bypasses _withRetry.
UsesRetry(isLogin) == ~isLogin

\* _headers: the token sent with a request (0: no Authorization header).
HeadersFirstToken(sid) == IF sid # 0 THEN 1 ELSE 0
Headers(sid) == IF sid # 0 THEN sid ELSE 0

NewRequest ==
  [st |-> "new", attempts |-> 0, relogins |-> 0, hdr |-> 0, err1 |-> NoError,
   relogin |-> "none", why |-> "", thrown |-> NoError, since |-> 0]

\* login(): this.sessionId = res.inventory?.uuid, before the test of the value
\* (uuid 0: the response carries none).
LoginSessionChecked(old, uuid) == IF uuid # 0 THEN uuid ELSE old
LoginSession(old, uuid) == uuid

NoLogin == [st |-> "idle", attempts |-> 0, why |-> ""]

\* isLoggedIn(): !!this.sessionId
IsLoggedIn(sid) == sid # 0

\* _executeTool: if (!cli || !cli.isLoggedIn()) return { error: ... }
\* (cli: the engine has a client).
ConnectedClientOnly(cli, sid) == cli
Connected(cli, sid) == cli /\ IsLoggedIn(sid)

\* The client after construction; no request has been made.
ClientIdle ==
  /\ sessionId = 0
  /\ credentials = FALSE
  /\ relogging = FALSE
  /\ req = [r \in Requests |-> NewRequest]
  /\ login = NoLogin
  /\ nextToken = 1

(***************************************************************************)
(* Tool-call argument text in the stream.  A text is a sequence of          *)
(* characters, each tagged with the call it was sent for.                   *)
(***************************************************************************)
\* Number of tool calls in the turn that is streamed.
MaxBlocks == 2
Blocks == 1..MaxBlocks

\* Argument texts the provider sends: {} , {x} , {x,y}.
Shapes == { <<"{", "}">>, <<"{", "x", "}">>, <<"{", "x", "y", "}">> }
TextOf(c, shape) == [j \in 1..Len(shape) |-> [call |-> c, ch |-> shape[j]]]

\* JSON.parse: the value of a text, or a SyntaxError.
WellFormed(t) ==
  /\ Len(t) >= 2
  /\ t[1].ch = "{"
  /\ t[Len(t)].ch = "}"
  /\ \A k \in 2..(Len(t) - 1) : t[k].ch \notin {"{", "}"}
JsonValue(t) ==
  IF WellFormed(t) THEN [ok |-> TRUE, members |-> SubSeq(t, 2, Len(t) - 1)]
  ELSE [ok |-> FALSE, members |-> <<>>]
EmptyObject == [ok |-> TRUE, members |-> <<>>]

\* content_block_stop: JSON.parse(inputJsonStr || '{}'), {} when it throws.
ParseBlockInput(t) ==
  IF t = <<>> THEN EmptyObject
  ELSE IF JsonValue(t).ok THEN JsonValue(t) ELSE EmptyObject

\* arguments += fragment / inputJsonStr += partial_json.
AccumulateLast(text, fragment) == fragment
Accumulate(text, fragment) == text \o fragment

NoBlock == [exists |-> FALSE, arguments |-> <<>>, input |-> EmptyObject]

\* No response is being read.
\* Lines of the stream that carry no event of a tool call: a payload that
\* is not JSON, an error envelope.
LineKinds == {"not_json", "error_envelope"}

\* The line loop of both adapters: a payload JSON.parse throws on is
\* passed over; the OpenAI-compatible adapter throws
\* on chunk.error, the Anthropic adapter on an event of type error.
LineOutcomeStrict(kind) ==
  IF kind \in {"error_envelope", "not_json"} THEN "throw" ELSE "skip"
LineOutcome(kind) == IF kind = "error_envelope" THEN "throw" ELSE "skip"

NoLines == [text |-> 0, skipped |-> {}, fatal |-> "none"]

StreamIdle ==
  /\ lines = NoLines
  /\ texts = [c \in Blocks |-> <<>>]
  /\ progress = [c \in Blocks |-> [st |-> "unsent", pos |-> 0, frags |-> 0]]
  /\ blocks = [c \in Blocks |-> NoBlock]
  /\ currentBlockIndex = 0
  /\ inputJsonStr = <<>>
  /\ spc = "idle"
  /\ dispatched = [c \in Blocks |-> EmptyObject]
  /\ interleaved = FALSE

(***************************************************************************)
(* Tool Dispatch: _executeTool(name, args).                                *)
(***************************************************************************)
\* Longest resource path given to a tool.
MaxPathLen == 4

\* Resource paths: strings over the characters of 'v1/' and one other.
PathChars == {"v", "1", "/", "x"}
Paths == UNION {[1..n -> PathChars] : n \in 0..MaxPathLen}

V1Prefix == <<"v", "1", "/">>

\* p.startsWith(pre)
StartsWith(p, pre) == Len(p) >= Len(pre) /\ SubSeq(p, 1, Len(pre)) = pre

\* fixPath = (p) => p && !p.startsWith('v1/') ? `v1/${p}` : p
FixPathAlways(p) == V1Prefix \o p
FixPath(p) == IF p # <<>> /\ ~StartsWith(p, V1Prefix) THEN V1Prefix \o p ELSE p

\* The cases of the switch: the generic tools take a resource path.
GenericTools ==
  {"zstack_query", "zstack_get", "zstack_create", "zstack_delete", "zstack_action",
   "zstack_update"}
NamedTools ==
  {"zstack_zql", "query_vms", "create_vm", "start_vm", "stop_vm", "reboot_vm",
   "delete_vm", "migrate_vm", "query_hosts", "query_images", "query_l3_networks",
   "query_instance_offerings", "query_volumes", "query_load_balancers", "query_vips",
   "query_eips", "query_security_groups", "query_vpc_routers"}
DispatchTable == GenericTools \cup NamedTools

\* Names the model may produce that the switch has no case for.
UnknownNames == {"zstack_Query", "list_vms", ""}

NoCall == [made |-> FALSE, tool |-> "", path |-> <<>>, outcome |-> "none"]
NoResult == [how |-> "none", payload |-> "none", names |-> "none"]

\* The client call of a case of the switch: the generic tools pass
\* fixPath(args.resource_path), the others pass no path.
ClientCall(name, path) ==
  [made |-> TRUE, tool |-> name,
   path |-> IF name \in GenericTools THEN FixPath(path) ELSE <<>>,
   outcome |-> "pending"]

\* { error: '未连接到 ZStack，请先配置并登录' }
NotConnectedPayload == [how |-> "returned", payload |-> "error_not_connected", names |-> "none"]

\* default: return { error: `未知工具: ${name}` }
UnknownToolThrows(name) == [how |-> "thrown", payload |-> "none", names |-> name]
UnknownToolPayload(name) == [how |-> "returned", payload |-> "error_unknown_tool", names |-> name]

\* The promise of _executeTool once the client call has settled with outcome.
ToolPayload(outcome) ==
  IF ExecuteTool(outcome) = "error"
  THEN [how |-> "returned", payload |-> "error_message", names |-> "none"]
  ELSE [how |-> "returned", payload |-> "result", names |-> "none"]

\* Endpoints the user connects to.
Endpoints == {"a", "b", "c"}

\* The client is configured for endpoint a and no token was issued.
SiteIdle ==
  /\ endpoint = "a"
  /\ issued = <<>>

\* Longest inventories collection in a response.
MaxInventories == 2

\* Entities a response can carry.
Entities == {"e1", "e2", "e3"}
NoEntity == "none"

\* The collection field of a response: absent, or a list of entities.
Collections ==
  {[present |-> FALSE, items |-> <<>>]} \cup
  {[present |-> TRUE, items |-> l] : l \in UNION {[1..n -> Entities] : n \in 0..MaxInventories}}

\* get(): data.inventory after
\* if (!data.inventory && data.inventories?.length > 0) data.inventory = data.inventories[0]
GetEntityFromList(data) ==
  IF data.inventories.present /\ Len(data.inventories.items) > 0
  THEN data.inventories.items[1] ELSE data.inventory
GetEntity(data) ==
  IF data.inventory = NoEntity /\ data.inventories.present /\ Len(data.inventories.items) > 0
  THEN data.inventories.items[1]
  ELSE data.inventory

NoGet ==
  [pc |-> "idle",
   data |-> [inventory |-> NoEntity, inventories |-> [present |-> FALSE, items |-> <<>>]],
   returned |-> NoEntity]
GetIdle == getCall = NoGet

\* Accounts typed into the connection form (the password goes with the account).
Accounts == {"admin", "ops"}

NoSettings == [endpoint |-> "", account |-> ""]

\* The connection form: each field filled in or left empty.
Forms == [endpoint : Endpoints \cup {""}, account : Accounts \cup {""}]

\* connectZStack: if (!endpoint || !account || !password) return
FormComplete(f) == f.endpoint # "" /\ f.account # ""

\* environments.findIndex(e => e.endpoint === endpoint), 0 when there is none.
ExistingIdx(envs, ep) ==
  IF \E k \in 1..Len(envs) : envs[k].endpoint = ep
  THEN CHOOSE k \in 1..Len(envs) :
         /\ envs[k].endpoint = ep
         /\ \A j \in 1..(k - 1) : envs[j].endpoint # ep
  ELSE 0

\* connectZStack: the code after the try block is reached only when login()
\* resolved; the catch returns.
SaveAlways(loginOk) == TRUE
SaveAfter(loginOk) == loginOk

\* The environment list, index and stored settings after the save.
SavedConnection(c) ==
  LET k == ExistingIdx(c.environments, c.form.endpoint)
      envs == IF k > 0 THEN [c.environments EXCEPT ![k] = c.form]
              ELSE Append(c.environments, c.form)
  IN [c EXCEPT !.environments = envs,
               !.currentEnvId = IF k > 0 THEN k ELSE Len(envs),
               !.stored = c.form]

NoConnect ==
  [pc |-> "idle", form |-> NoSettings, environments |-> <<>>, currentEnvId |-> 0,
   stored |-> NoSettings]
ConnectIdle == connect = NoConnect

NoReads == [pc |-> "idle", stream |-> <<>>, pos |-> 0, buffer |-> <<>>, processed |-> <<>>]
ReadsIdle == reads = NoReads

\* Nothing but the part of the program under examination has acted.
OthersIdle == SiteIdle /\ GetIdle /\ ConnectIdle /\ ReadsIdle

\* No _executeTool call is being examined.
ToolIdle ==
  /\ tName = ""
  /\ tPath = <<>>
  /\ tConnected = FALSE
  /\ tSent = NoCall
  /\ tResult = NoResult
  /\ tpc = "idle"

(***************************************************************************)
(* chat() of the streaming engine.                                         *)
(***************************************************************************)
\* No chat() has been called on the engine.
EngineIdle ==
  /\ abortController = FALSE
  /\ pc = "idle"
  /\ i = 0
  /\ aborted = FALSE
  /\ elapsed = 0
  /\ content = FALSE
  /\ acc = <<>>
  /\ toolCalls = <<>>
  /\ results = <<>>
  /\ order = <<>>
  /\ threw = {}
  /\ ret = "none"
  /\ adapterCalls = 0
  /\ abortAt = "none"
  /\ callsAtAbort = 0
  /\ roundStartLen = 0
  /\ batchAt = 0
  /\ before = <<>>
  /\ sizes = <<>>
  /\ longest = 0
  /\ authFailed = FALSE
  /\ emitted = FALSE
  /\ roundModel = "none"
  /\ roundMode = "none"
  /\ fallbackModel = "none"
  /\ truncateLimit = 0
  /\ toolEvents = NoEvents

Init ==
  /\ messages \in PriorConversations
  /\ provider \in Providers
  /\ script \in Scripts
  /\ queryMode \in ModesOf(script)
  /\ model = "m1"
  /\ EngineIdle
  /\ ClientIdle
  /\ StreamIdle
  /\ ToolIdle
  /\ OthersIdle

\* chat() leaves by return or throw; the finally block drops the token.
Finish(msgs, how) ==
  /\ messages' = msgs
  /\ pc' = "done"
  /\ ret' = how
  /\ abortController' = FALSE

\* The top of round n with conversation msgs, up to the adapter's fetch.
EnterRound(msgs, n) ==
  \E now \in {t \in TimePoints : t >= elapsed} :
    LET o == TopOutcome(n, aborted, now) IN
    /\ i' = n
    /\ elapsed' = IF o \in {"dispatch", TimeoutMessage} THEN now ELSE elapsed
    /\ IF o = "dispatch"
       THEN /\ messages' = msgs
            /\ pc' = "fetch"
            /\ adapterCalls' = adapterCalls + 1
            /\ roundStartLen' = Len(msgs)
            /\ content' = FALSE
            /\ emitted' = FALSE
            /\ acc' = <<>>
            /\ roundModel' = model
            /\ roundMode' = queryMode
            /\ fallbackModel' = "none"
            /\ UNCHANGED <<ret, abortController>>
       ELSE /\ Finish(msgs, o)
            /\ UNCHANGED <<adapterCalls, roundStartLen, content, emitted, acc,
                           roundModel, roundMode, fallbackModel>>

\* new AbortController(): the signal of a new token is not aborted.
ReusedSignal(old) == old
NewSignal(old) == FALSE

\* chat(): from the call up to the adapter's fetch of round 0.
BeginChat ==
  /\ abortController' = TRUE
  /\ aborted' = NewSignal(aborted)
  /\ before' = messages
  /\ \E now \in {0} :
       LET o == TopOutcome(0, FALSE, now) IN
       /\ o = "dispatch"
       /\ messages' = Append(messages, UserTurn)
       /\ i' = 0
       /\ elapsed' = now
       /\ pc' = "fetch"
       /\ adapterCalls' = 1
       /\ roundStartLen' = Len(messages) + 1
       /\ content' = FALSE
       /\ acc' = <<>>
       /\ roundModel' = model
       /\ roundMode' = queryMode
       /\ fallbackModel' = "none"
  /\ toolEvents' = NoEvents
  /\ UNCHANGED <<provider, script, payloadVars, emitted, model, truncateLimit>>
  /\ UNCHANGED <<clientVars, streamVars, toolVars, siteVars, moreVars>>

ChatStart ==
  /\ pc = "idle"
  /\ BeginChat
  /\ UNCHANGED <<toolCalls, results, order, threw, ret, abortAt, callsAtAbort, batchAt>>

\* A second chat() on the same engine, after the first one was stopped
\* while its first request was in flight.
ChatAgain ==
  /\ pc = "done"
  /\ script = "hands_on"
  /\ abortAt = "fetch" /\ i = 0 /\ ret = StopMessage
  /\ before \in PriorConversations
  /\ BeginChat
  /\ ret' = "none"
  /\ abortAt' = "earlier"
  /\ callsAtAbort' = 0
  /\ UNCHANGED <<toolCalls, results, order, threw, batchAt>>

\* abort() while no chat() is in flight: the engine holds no token and
\* nothing is cancelled.
AbortNoChat ==
  /\ pc = "idle"
  /\ script = "hands_on"
  /\ abortAt = "none"
  /\ ~abortController
  /\ abortAt' = "idle"
  /\ UNCHANGED <<messages, provider, abortController, pc, i, aborted, elapsed, content,
                 acc, toolCalls, results, order, threw, ret, adapterCalls, callsAtAbort,
                 roundStartLen, batchAt, before, script>>
  /\ UNCHANGED <<payloadVars, emitted, configVars, toolEvents, clientVars, streamVars, toolVars, siteVars, moreVars>>

\* configure({ model, baseUrl, queryMode }) while a chat() is suspended: the
\* user saves another model, with either query mode.
Configure ==
  /\ script = "hands_on"
  /\ pc \in {"fetch", "fallback", "stream", "tools"}
  /\ model = "m1"
  /\ \E m \in Models \ {model} : \E q \in QueryModes :
       /\ model' = m
       /\ queryMode' = q
  /\ UNCHANGED <<messages, provider, abortController, pc, i, aborted, elapsed, content,
                 acc, toolCalls, results, order, threw, ret, adapterCalls, abortAt,
                 callsAtAbort, roundStartLen, batchAt, before, script>>
  /\ UNCHANGED <<sizes, longest, authFailed, emitted, roundModel, roundMode,
                 fallbackModel, truncateLimit, toolEvents, clientVars, streamVars, toolVars, siteVars, moreVars>>

\* clearHistory(), between chats.
ClearHistory ==
  /\ pc = "idle"
  /\ messages' = <<>>
  /\ UNCHANGED <<provider, abortController, pc, i, aborted, elapsed, content,
                 acc, toolCalls, results, order, threw, ret, adapterCalls, abortAt,
                 callsAtAbort, roundStartLen, batchAt, before, script>>
  /\ UNCHANGED <<payloadVars, emitted, configVars, toolEvents, clientVars, streamVars, toolVars, siteVars, moreVars>>

\* abort(): only while the engine holds a token.
Abort ==
  /\ abortController
  /\ pc \in {"fetch", "fallback", "stream", "tools"}
  /\ aborted' = TRUE
  /\ abortController' = FALSE
  /\ abortAt' = pc
  /\ callsAtAbort' = adapterCalls
  /\ UNCHANGED <<messages, provider, pc, i, elapsed, content, acc, toolCalls, results,
                 order, threw, ret, adapterCalls, roundStartLen, batchAt, before, script>>
  /\ UNCHANGED <<payloadVars, emitted, configVars, toolEvents, clientVars, streamVars, toolVars, siteVars, moreVars>>

\* The pending await of the adapter (fetch, res.text, reader.read) is rejected with
\* an AbortError; the adapter rethrows it and chat() catches it.
AbortRejects ==
  /\ pc \in {"fetch", "fallback", "stream"}
  /\ aborted
  /\ Finish(AbortedConversation(messages, content), CatchOutcome("AbortError"))
  /\ UNCHANGED <<provider, i, aborted, elapsed, content, acc, toolCalls, results, order,
                 threw, adapterCalls, abortAt, callsAtAbort, roundStartLen, batchAt,
                 before, script>>
  /\ UNCHANGED <<payloadVars, emitted, configVars, toolEvents, clientVars, streamVars, toolVars, siteVars, moreVars>>

\* fetch resolves with an ok response: the adapter starts reading the stream.
FetchOk ==
  /\ pc = "fetch"
  /\ ~aborted
  /\ pc' = "stream"
  /\ UNCHANGED <<messages, provider, abortController, i, aborted, elapsed, content, acc,
                 toolCalls, results, order, threw, ret, adapterCalls, abortAt,
                 callsAtAbort, roundStartLen, batchAt, before, script>>
  /\ UNCHANGED <<payloadVars, emitted, configVars, toolEvents, clientVars, streamVars, toolVars, siteVars, moreVars>>

\* fetch rejects, or the response is an error the adapter throws on.
FetchFail ==
  /\ pc = "fetch"
  /\ ~aborted
  /\ Finish(messages, CatchOutcome("Error"))
  /\ UNCHANGED <<provider, i, aborted, elapsed, content, acc, toolCalls, results, order,
                 threw, adapterCalls, abortAt, callsAtAbort, roundStartLen, batchAt,
                 before, script>>
  /\ UNCHANGED <<payloadVars, emitted, configVars, toolEvents, clientVars, streamVars, toolVars, siteVars, moreVars>>

\* A read delivers a text delta.
StreamText ==
  /\ pc = "stream"
  /\ ~aborted
  /\ ~content
  /\ content' = TRUE
  /\ emitted' = TRUE
  /\ UNCHANGED <<messages, provider, abortController, pc, i, aborted, elapsed, acc,
                 toolCalls, results, order, threw, ret, adapterCalls, abortAt,
                 callsAtAbort, roundStartLen, batchAt, before, script>>
  /\ UNCHANGED <<payloadVars, configVars, toolEvents, clientVars, streamVars, toolVars, siteVars, moreVars>>

\* A read completes a tool call (its id, name and argument text).
StreamToolCall ==
  /\ pc = "stream"
  /\ ~aborted
  /\ Len(acc) < CallLimit(script, i)
  /\ \E a \in ArgTexts(script) :
       acc' = Append(acc, [id |-> <<i, Len(acc) + 1>>,
                           args |-> IF IsAnthropic(provider) THEN ParseInput(a) ELSE a])
  /\ UNCHANGED <<messages, provider, abortController, pc, i, aborted, elapsed, content,
                 toolCalls, results, order, threw, ret, adapterCalls, abortAt,
                 callsAtAbort, roundStartLen, batchAt, before, script>>
  /\ UNCHANGED <<payloadVars, emitted, configVars, toolEvents, clientVars, streamVars, toolVars, siteVars, moreVars>>

\* chat(): the response carries no tool call.
NoToolCallsLoose(calls) == Len(calls) <= 1
NoToolCalls(calls) == Len(calls) = 0

\* The adapter returned `calls` and, when txt, a text: chat() runs on to its
\* next await.  chat() emits no text event.
AdapterReturned(calls, txt) ==
  /\ IF aborted
     THEN /\ Finish(messages, StopMessage)
          /\ content' = txt
          /\ UNCHANGED <<i, elapsed, emitted, acc, toolCalls, results, order, threw,
                         adapterCalls, roundStartLen, batchAt, sizes, longest,
                         roundModel, roundMode, fallbackModel, truncateLimit, toolEvents>>
     ELSE IF NoToolCalls(calls)
     THEN /\ Finish(Append(messages, AssistantTurn), "final")
          /\ content' = txt
          /\ UNCHANGED <<i, elapsed, emitted, acc, toolCalls, results, order, threw,
                         adapterCalls, roundStartLen, batchAt, sizes, longest,
                         roundModel, roundMode, fallbackModel, truncateLimit, toolEvents>>
     ELSE LET msgs1 == Append(messages, ToolCallTurn(calls))
              res0 == [k \in 1..Len(calls) |-> InitialResult(provider, calls[k])]
              ord0 == SelectSeq([k \in 1..Len(calls) |-> k], LAMBDA k : res0[k] # "pending")
              siz0 == [k \in 1..Len(calls) |-> InitialSize(res0[k])]
          IN /\ toolCalls' = calls
             /\ sizes' = siz0
             /\ batchAt' = Len(msgs1)
             /\ results' = res0
             /\ order' = ord0
             /\ threw' = {}
             /\ truncateLimit' = TruncateLimit(queryMode)
             /\ IF Pending(res0) = {}
                THEN /\ EnterRound(msgs1 \o ResultTurns(provider, calls, res0, ord0), i + 1)
                     /\ longest' = MaxOf(siz0, longest)
                     /\ toolEvents' = EmitToolDone(EmitToolStart(toolEvents, i), i)
                ELSE /\ messages' = msgs1
                     /\ pc' = "tools"
                     /\ content' = txt
                     /\ toolEvents' = EmitToolStart(toolEvents, i)
                     /\ UNCHANGED <<abortController, i, elapsed, emitted, acc, ret,
                                    adapterCalls, roundStartLen, longest,
                                    roundModel, roundMode, fallbackModel>>
  /\ UNCHANGED <<provider, aborted, abortAt, callsAtAbort, before, script, queryMode,
                 authFailed, model>>

\* The stream ends: the adapter returns what it accumulated.
StreamEnd ==
  /\ pc = "stream"
  /\ ~aborted
  /\ AdapterReturned(acc, content)
  /\ UNCHANGED <<clientVars, streamVars, toolVars, siteVars, moreVars>>

\* The provider rejects the streaming request with a message about streaming:
\* the OpenAI-compatible adapter repeats the request without streaming.
FetchFallback ==
  /\ pc = "fetch"
  /\ ~aborted
  /\ ~IsAnthropic(provider)
  /\ pc' = "fallback"
  /\ fallbackModel' = model
  /\ UNCHANGED <<messages, provider, abortController, i, aborted, elapsed, content, acc,
                 toolCalls, results, order, threw, ret, adapterCalls, abortAt,
                 callsAtAbort, roundStartLen, batchAt, before, script>>
  /\ UNCHANGED <<payloadVars, emitted, model, roundModel, roundMode, truncateLimit,
                 toolEvents, clientVars, streamVars, toolVars, siteVars, moreVars>>

\* The batches of tool calls a complete response of round n can carry.
Batches(sc, n) ==
  UNION {[1..m -> ArgTexts(sc)] : m \in 0..CallLimit(sc, n)}
\* Whether a complete response carries text (msg.content).
TextChoices(sc) == IF sc = "looping" THEN {FALSE} ELSE BOOLEAN
CallsOf(n, batch) ==
  [k \in 1..Len(batch) |-> [id |-> <<n, k>>, args |-> batch[k]]]

\* The non-streaming response arrives: the adapter returns its message.
NonStreamReturn ==
  /\ pc = "fallback"
  /\ ~aborted
  /\ \E batch \in Batches(script, i) : \E txt \in TextChoices(script) :
       AdapterReturned(CallsOf(i, batch), txt)
  /\ UNCHANGED <<clientVars, streamVars, toolVars, siteVars, moreVars>>

\* The non-streaming request fails, or its response is an error.
NonStreamFail ==
  /\ pc = "fallback"
  /\ ~aborted
  /\ Finish(messages, CatchOutcome("Error"))
  /\ UNCHANGED <<provider, i, aborted, elapsed, content, acc, toolCalls, results, order,
                 threw, adapterCalls, abortAt, callsAtAbort, roundStartLen, batchAt,
                 before, script>>
  /\ UNCHANGED <<payloadVars, emitted, configVars, toolEvents, clientVars, streamVars, toolVars, siteVars, moreVars>>

\* A read fails with an error other than the abort, or carries an error envelope.
StreamFail ==
  /\ pc = "stream"
  /\ ~aborted
  /\ IF content /\ Len(acc) = 0
     THEN Finish(Append(messages, AssistantTurn), "partial")
     ELSE Finish(messages, CatchOutcome("Error"))
  /\ UNCHANGED <<provider, i, aborted, elapsed, content, acc, toolCalls, results, order,
                 threw, adapterCalls, abortAt, callsAtAbort, roundStartLen, batchAt,
                 before, script>>
  /\ UNCHANGED <<payloadVars, emitted, configVars, toolEvents, clientVars, streamVars, toolVars, siteVars, moreVars>>

\* The Resource Client call of tool call k settles; when it was the last pending
\* one, Promise.all resolves and chat() runs on to its next await.
ToolSettle ==
  /\ pc = "tools"
  /\ \E k \in Pending(results) : \E o \in ToolOutcomes(script) :
     \E len \in PayloadLens(script) :
       LET res1 == [results EXCEPT ![k] = ExecuteTool(o)]
           ord1 == Append(order, k)
           siz1 == [sizes EXCEPT ![k] = Slice(len, truncateLimit)]
       IN /\ results' = res1
          /\ order' = ord1
          /\ sizes' = siz1
          /\ threw' = IF o # "ok" THEN threw \cup {k} ELSE threw
          /\ authFailed' = (authFailed \/ o = "reauth_failed")
          /\ IF Pending(res1) = {}
             THEN /\ EnterRound(messages \o ResultTurns(provider, toolCalls, res1, ord1), i + 1)
                  /\ longest' = MaxOf(siz1, longest)
                  /\ toolEvents' = EmitToolDone(toolEvents, i)
             ELSE UNCHANGED <<messages, abortController, pc, i, elapsed, content, emitted,
                              acc, ret, adapterCalls, roundStartLen, longest,
                              roundModel, roundMode, fallbackModel, toolEvents>>
  /\ UNCHANGED <<provider, aborted, toolCalls, abortAt, callsAtAbort, batchAt, before, script,
                 queryMode, model, truncateLimit>>
  /\ UNCHANGED <<clientVars, streamVars, toolVars, siteVars, moreVars>>

(***************************************************************************)
(* Reading the conversation.                                               *)
(***************************************************************************)
IsResultTurn(t) == t.kind \in {"tool", "tool_results"}

\* The call ids / contents of the result entries that directly follow turn p.
RECURSIVE ResultIdsFrom(_, _)
ResultIdsFrom(msgs, q) ==
  IF q > Len(msgs) \/ ~IsResultTurn(msgs[q]) THEN <<>>
  ELSE msgs[q].ids \o ResultIdsFrom(msgs, q + 1)
RECURSIVE ResultResFrom(_, _)
ResultResFrom(msgs, q) ==
  IF q > Len(msgs) \/ ~IsResultTurn(msgs[q]) THEN <<>>
  ELSE msgs[q].res \o ResultResFrom(msgs, q + 1)

\* The fan-out of the latest tool-call-request turn is over.
BatchComplete == batchAt > 0 /\ pc # "tools"

\* From position q on, msgs holds only completed rounds: a tool-call request
\* followed by the result entries of exactly its calls.
RECURSIVE CompletedRounds(_, _)
CompletedRounds(msgs, q) ==
  IF q > Len(msgs) THEN TRUE
  ELSE /\ msgs[q].kind = "tool_calls"
       /\ LET ids == ResultIdsFrom(msgs, q + 1)
              step == IF msgs[q + 1].kind = "tool" THEN Len(ids) ELSE 1
          IN /\ ids = msgs[q].ids
             /\ Len(ids) > 0
             /\ CompletedRounds(msgs, q + 1 + step)

(***************************************************************************)
(* Claims about chat() of the streaming engine.                            *)
(***************************************************************************)

C3_AbortAlwaysStops ==
  (pc = "done" /\ abortAt \in {"fetch", "fallback", "stream", "tools"}) => ret = StopMessage

\* C6: the adapter is invoked at most maxRounds times; when maxRounds rounds have
\* requested tools chat() returns the round-limit message, without throwing and
\* without another adapter call; the loop is never beyond its last round.
C6_BoundedRounds ==
  /\ adapterCalls <= maxRounds
  /\ i <= maxRounds
  /\ pc # "done" => i < maxRounds
  /\ (pc = "done" /\ i = maxRounds) => (ret = RoundLimitMessage /\ adapterCalls = maxRounds)
  /\ ret = RoundLimitMessage => (pc = "done" /\ i = maxRounds /\ adapterCalls = maxRounds)

C6_Witness == pc = "done" /\ ret = RoundLimitMessage /\ adapterCalls = maxRounds

\* C7: the result entries that follow a tool-call-request turn carry the ids of
\* its calls in the order of the request, and the entry of the latest batch at
\* position k holds the result produced for call k, whatever order they settled in.
C7_ResultsInCallOrder ==
  /\ \A p \in 1..Len(messages) :
       (messages[p].kind = "tool_calls" /\ (p # batchAt \/ pc # "tools"))
         => ResultIdsFrom(messages, p + 1) = messages[p].ids
  /\ BatchComplete => ResultResFrom(messages, batchAt + 1) = results

\* C7 witness: the second call settled before the first, with different results.
C7_Witness ==
  /\ BatchComplete
  /\ Len(order) = 2
  /\ order[1] = 2
  /\ results[1] # results[2]
  /\ Len(ResultIdsFrom(messages, batchAt + 1)) = 2

\* C8: after an abort() during the fan-out every call of the round still settles
\* and has its result appended, and the adapter is not invoked again.
C8_AbortLeavesToolsRunning ==
  /\ abortAt = "tools" => (pc \in {"tools", "done"} /\ adapterCalls = callsAtAbort)
  /\ (abortAt = "tools" /\ pc = "tools") => (Pending(results) # {} /\ ENABLED ToolSettle)
  /\ (abortAt = "tools" /\ pc = "done") =>
       /\ Pending(results) = {}
       /\ Len(results) = Len(toolCalls)
       /\ ResultResFrom(messages, batchAt + 1) = results
       /\ ResultIdsFrom(messages, batchAt + 1) = messages[batchAt].ids
       /\ Len(messages) = batchAt + Len(ResultTurns(provider, toolCalls, results, order))

\* C8 witness: abort() came while both calls of a round were pending.
C8_Witness ==
  /\ abortAt = "tools"
  /\ pc = "done"
  /\ Len(toolCalls) = 2
  /\ threw # {}

\* C9: when the abort interrupts the adapter call, chat() returns the stop string
\* and the conversation is the one before the call, the user turn, and the turns
\* of the rounds completed earlier; the partial text leaves no assistant turn.
C9_PartialTextDropped ==
  (pc = "done" /\ abortAt \in {"fetch", "fallback", "stream"}) =>
    /\ ret = StopMessage
    /\ Len(messages) = roundStartLen
    /\ Len(messages) >= Len(before) + 1
    /\ SubSeq(messages, 1, Len(before)) = before
    /\ messages[Len(before) + 1] = UserTurn
    /\ CompletedRounds(messages, Len(before) + 2)

\* C9 witness: text deltas had arrived when the abort hit the stream of round 2.
C9_Witness ==
  /\ pc = "done"
  /\ abortAt = "stream"
  /\ content
  /\ i = 1
  /\ Len(before) > 0

\* C10: a clock reading beyond the budget at the top of a round ends chat() with
\* the timeout message, no adapter call is made for that round, nothing is thrown;
\* so every adapter call follows a reading within the budget.
C10_TimeoutAtTop ==
  /\ elapsed > timeoutMs => (pc = "done" /\ ret = TimeoutMessage /\ adapterCalls = i)
  /\ ret = TimeoutMessage => (pc = "done" /\ elapsed > timeoutMs)

C10_Witness == pc = "done" /\ ret = TimeoutMessage /\ i = 2

C15_AuthFailureEndsChat ==
  (authFailed /\ pc # "tools") => (pc = "done" /\ ret = "thrown")

\* C16: chat() never returns the partial text of a response whose stream failed
\* as its answer: a failed stream makes chat() throw and records no assistant turn.
C16_StreamErrorPropagates ==
  pc = "done" => (ret # "partial" /\ (ret = "thrown" => Len(messages) = roundStartLen))

\* C17: the text of the response chat() is working on has been delivered as a
\* text event, also when it came with the non-streaming call.
C17_FallbackTextEmitted == content => emitted

\* C19: every tool call of a round is dispatched, a call whose argument text is
\* not valid JSON with an empty argument object; none gets its result without
\* being dispatched.
C19_BadArgsDispatchedEmpty ==
  \A k \in DOMAIN results :
    /\ toolCalls[k].args \in {"json", "empty"}
    /\ results[k] # "parse_error"

\* C23: the configuration a round works with is the one in force when its
\* adapter call started: the non-streaming request of the round names the
\* model of that moment, and the fan-out of the round truncates with the
\* budget of the query mode of that moment.
C23_ConfigSnapshotPerRound ==
  /\ fallbackModel # "none" => fallbackModel = roundModel
  /\ pc = "tools" => truncateLimit = TruncateLimit(roundMode)

\* C24: the token belongs to one chat(): the engine holds one exactly while
\* a chat() is in flight and not stopped, it holds none before the chat and
\* once the chat has ended, and an abort() made before the chat, or during
\* an earlier chat, leaves this chat's signal untouched.
C24_OwnTokenPerChat ==
  /\ pc \in {"idle", "done"} => ~abortController
  /\ (pc \notin {"idle", "done"} /\ ~aborted) => abortController
  /\ aborted => abortAt \in {"fetch", "fallback", "stream", "tools"}
  /\ abortAt \in {"idle", "earlier"} => (~aborted /\ ret # StopMessage)

\* The first chat was stopped; the second one ran to its final answer.
C24_Witness ==
  /\ abortAt = "earlier"
  /\ pc = "done"
  /\ ret = "final"
  /\ ~abortController

ClearHistoryInFlight ==
  /\ pc \in {"fetch", "fallback", "stream", "tools"}
  /\ messages # <<>>
  /\ messages' = <<>>
  /\ UNCHANGED <<provider, abortController, pc, i, aborted, elapsed, content,
                 acc, toolCalls, results, order, threw, ret, adapterCalls, abortAt,
                 callsAtAbort, roundStartLen, batchAt, before, script>>
  /\ UNCHANGED <<payloadVars, emitted, configVars, toolEvents, clientVars, streamVars, toolVars, siteVars, moreVars>>

\* C36: every tool-result entry of the conversation comes after the
\* tool-call turn that issued its id, also when clearHistory() runs while a
\* chat() is in flight.
C36_ResultsFollowTheirRequest ==
  \A q \in 1..Len(messages) :
    IsResultTurn(messages[q]) =>
      \A n \in 1..Len(messages[q].ids) :
        \E p \in 1..(q - 1) :
          /\ messages[p].kind = "tool_calls"
          /\ \E m \in 1..Len(messages[p].ids) : messages[p].ids[m] = messages[q].ids[n]

\* C39: no two user-text turns are adjacent in the conversation: the user
\* turn a chat() appends is followed by an assistant turn before the next
\* chat() appends another, however the earlier chat() ended.
C39_NoAdjacentUserTurns ==
  \A k \in 1..(Len(messages) - 1) :
    ~(messages[k] = UserTurn /\ messages[k + 1] = UserTurn)

Next ==
  \/ ChatStart
  \/ Abort
  \/ AbortRejects
  \/ FetchOk
  \/ FetchFail
  \/ StreamText
  \/ StreamToolCall
  \/ StreamEnd
  \/ StreamFail
  \/ FetchFallback
  \/ NonStreamReturn
  \/ NonStreamFail
  \/ ToolSettle
  \/ ChatAgain
  \/ AbortNoChat
  \/ Configure
  \/ ClearHistory

Spec == Init /\ [][Next]_vars

\* The engine with the side panel's clear-chat button and environment switch
\* live during a chat.
InitClear == Init /\ script = "hands_on"

NextClear ==
  \/ Next
  \/ ClearHistoryInFlight

SpecClear == InitClear /\ [][NextClear]_vars
(***************************************************************************)
(* chat() of the non-streaming engine (extension/lib/llm.js): no           *)
(* cancellation, one await for the whole adapter call.                     *)
(***************************************************************************)
LegacyIsAnthropic(p) == p = "anthropic"

LegacyTopOutcome(n, t) ==
  IF ~(n < maxRounds) THEN RoundLimitMessage
  ELSE IF t > timeoutMs THEN TimeoutMessage
  ELSE "dispatch"

\* _executeTool of llm.js: the same capture of a throwing client call.
LegacyExecuteTool(outcome) ==
  IF outcome \in {"throw", "reauth_failed"} THEN "error" ELSE "result"

LegacyResultTurns(p, calls, res) ==
  IF LegacyIsAnthropic(p)
  THEN << [kind |-> "tool_results",
           ids |-> [k \in 1..Len(calls) |-> calls[k].id],
           res |-> [k \in 1..Len(calls) |-> res[k]]] >>
  ELSE [k \in 1..Len(calls) |->
          [kind |-> "tool", ids |-> <<calls[k].id>>, res |-> <<res[k]>>]]

\* The Anthropic response carries each input as an object, the OpenAI one as text.
LegacyBatches(p, sc, n) ==
  IF LegacyIsAnthropic(p)
  THEN UNION {[1..m -> {"json"}] : m \in 0..CallLimit(sc, n)}
  ELSE Batches(sc, n)

LegacyFinish(msgs, how) ==
  /\ messages' = msgs
  /\ pc' = "done"
  /\ ret' = how

LegacyEnterRound(msgs, n) ==
  \E now \in {t \in TimePoints : t >= elapsed} :
    LET o == LegacyTopOutcome(n, now) IN
    /\ i' = n
    /\ elapsed' = IF o \in {"dispatch", TimeoutMessage} THEN now ELSE elapsed
    /\ IF o = "dispatch"
       THEN /\ messages' = msgs
            /\ pc' = "fetch"
            /\ adapterCalls' = adapterCalls + 1
            /\ roundStartLen' = Len(msgs)
            /\ UNCHANGED ret
       ELSE /\ LegacyFinish(msgs, o)
            /\ UNCHANGED <<adapterCalls, roundStartLen>>

LChatStart ==
  /\ pc = "idle"
  /\ LegacyTopOutcome(0, 0) = "dispatch"
  /\ before' = messages
  /\ messages' = Append(messages, UserTurn)
  /\ i' = 0
  /\ elapsed' = 0
  /\ pc' = "fetch"
  /\ adapterCalls' = 1
  /\ roundStartLen' = Len(messages) + 1
  /\ UNCHANGED <<provider, abortController, aborted, content, acc, toolCalls, results,
                 order, threw, ret, abortAt, callsAtAbort, batchAt, script>>
  /\ UNCHANGED <<payloadVars, emitted, configVars, toolEvents, clientVars, streamVars, toolVars, siteVars, moreVars>>

\* _callOpenAI / _callAnthropic returns; chat() runs on to its next await.  In the
\* OpenAI branch the map callback evaluates JSON.parse(tc.function.arguments)
\* outside any try: unparsable text rejects Promise.all and chat() throws.
LAdapterReturn ==
  /\ pc = "fetch"
  /\ \E batch \in LegacyBatches(provider, script, i) :
       LET calls == CallsOf(i, batch)
           msgs1 == Append(messages, ToolCallTurn(calls))
       IN IF Len(calls) = 0
          THEN /\ LegacyFinish(Append(messages, AssistantTurn), "final")
               /\ UNCHANGED <<toolCalls, results, order, threw, batchAt>>
          ELSE /\ toolCalls' = calls
               /\ batchAt' = Len(msgs1)
               /\ results' = [k \in 1..Len(calls) |-> "pending"]
               /\ order' = <<>>
               /\ threw' = {}
               /\ IF ~LegacyIsAnthropic(provider)
                       /\ \E k \in 1..Len(calls) : ~JsonParses(calls[k].args)
                  THEN LegacyFinish(msgs1, "thrown")
                  ELSE /\ messages' = msgs1
                       /\ pc' = "tools"
                       /\ UNCHANGED ret
  /\ UNCHANGED <<provider, abortController, i, aborted, elapsed, content, acc,
                 adapterCalls, abortAt, callsAtAbort, roundStartLen, before, script>>
  /\ UNCHANGED <<payloadVars, emitted, configVars, toolEvents, clientVars, streamVars, toolVars, siteVars, moreVars>>

\* The adapter call throws (transport failure, error in the response).
LAdapterFail ==
  /\ pc = "fetch"
  /\ LegacyFinish(messages, "thrown")
  /\ UNCHANGED <<provider, abortController, i, aborted, elapsed, content, acc, toolCalls,
                 results, order, threw, adapterCalls, abortAt, callsAtAbort,
                 roundStartLen, batchAt, before, script>>
  /\ UNCHANGED <<payloadVars, emitted, configVars, toolEvents, clientVars, streamVars, toolVars, siteVars, moreVars>>

LToolSettle ==
  /\ pc = "tools"
  /\ \E k \in Pending(results) : \E o \in ToolOutcomes(script) :
       LET res1 == [results EXCEPT ![k] = LegacyExecuteTool(o)]
       IN /\ results' = res1
          /\ order' = Append(order, k)
          /\ threw' = IF o = "throw" THEN threw \cup {k} ELSE threw
          /\ IF Pending(res1) = {}
             THEN LegacyEnterRound(messages \o LegacyResultTurns(provider, toolCalls, res1),
                                   i + 1)
             ELSE UNCHANGED <<messages, pc, i, elapsed, ret, adapterCalls, roundStartLen>>
  /\ UNCHANGED <<provider, abortController, aborted, content, acc, toolCalls, abortAt,
                 callsAtAbort, batchAt, before, script>>
  /\ UNCHANGED <<payloadVars, emitted, configVars, toolEvents, clientVars, streamVars, toolVars, siteVars, moreVars>>

NextLegacy ==
  \/ LChatStart
  \/ LAdapterReturn
  \/ LAdapterFail
  \/ LToolSettle

SpecLegacy == Init /\ [][NextLegacy]_vars

(***************************************************************************)
(* Claims about both engines.                                              *)
(***************************************************************************)
\* The first user text turn after position p, or the end of the conversation.
NextUserText(msgs, p) ==
  LET later == {q \in (p + 1)..Len(msgs) : msgs[q].kind = "user"}
  IN IF later = {} THEN Len(msgs) + 1
     ELSE CHOOSE q \in later : \A r \in later : q <= r

\* Every tool-call request is followed, before the next user text turn, by
\* exactly one result entry per call id it issued.
ToolCallsAnswered(msgs) ==
  \A p \in 1..Len(msgs) :
    msgs[p].kind = "tool_calls" =>
      \A c \in 1..Len(msgs[p].ids) :
        Cardinality({qk \in ((p + 1)..(NextUserText(msgs, p) - 1)) \X (1..MaxCalls) :
                       /\ IsResultTurn(msgs[qk[1]])
                       /\ qk[2] <= Len(msgs[qk[1]].ids)
                       /\ msgs[qk[1]].ids[qk[2]] = msgs[p].ids[c]}) = 1

\* C1: once chat() has returned or thrown, every tool-call request of the
\* conversation has exactly one result per call id.
C1_ToolCallsAnswered == pc = "done" => ToolCallsAnswered(messages)

(***************************************************************************)
(* The Resource Client: login(), _relogin() and _withRetry().              *)
(* A request is suspended while its fetch is in flight ("inflight") or     *)
(* while the re-login it started is in flight ("relogin").                 *)
(***************************************************************************)
InitClient ==
  /\ messages = <<>>
  /\ provider = "openai"
  /\ script = "free"
  /\ queryMode = "compact"
  /\ model = "m1"
  /\ EngineIdle
  /\ ClientIdle
  /\ StreamIdle
  /\ ToolIdle
  /\ OthersIdle

\* login() up to its first await: the credentials are cached, then the
\* request is sent.
LoginStart ==
  /\ login.st = "idle"
  /\ credentials' = TRUE
  /\ login' = [st |-> "inflight", attempts |-> 1, why |-> ""]
  /\ UNCHANGED <<sessionId, relogging, req, nextToken, engineVars, streamVars, toolVars, siteVars, moreVars>>

\* The login response carries inventory.uuid.
LoginOk ==
  /\ login.st = "inflight"
  /\ sessionId' = LoginSession(sessionId, nextToken)
  /\ nextToken' = nextToken + 1
  /\ issued' = Append(issued, endpoint)
  /\ login' = [login EXCEPT !.st = "ok"]
  /\ UNCHANGED <<credentials, relogging, req, endpoint, engineVars, streamVars, toolVars,
                 moreVars>>

\* The login response is an error, or an ok response without inventory.uuid
\* (this.sessionId = res.inventory?.uuid, then the throw).
\* A login request is sent with doRequest() directly, outside _withRetry.
LoginFail ==
  /\ login.st = "inflight"
  /\ \/ /\ sessionId' = LoginSession(sessionId, 0)
        /\ login' = [login EXCEPT !.st = "failed", !.why = "no_session"]
     \/ \E e \in ErrorResponses :
          /\ sessionId' = sessionId
          /\ login' =
               IF /\ UsesRetry(TRUE)
                  /\ ShouldRelogin(HandleResponseMessage(e), relogging)
                  /\ CanRelogin(relogging, credentials)
                  /\ login.attempts < 3
               THEN [login EXCEPT !.attempts = @ + 1]
               ELSE [login EXCEPT !.st = "failed", !.why = "error"]
  /\ UNCHANGED <<credentials, relogging, req, nextToken, engineVars, streamVars, toolVars, siteVars, moreVars>>

\* _get / _put / _delete / _rawPost: _withRetry calls requestFn, which sends
\* the request with the headers of that moment.
Request(r) ==
  /\ req[r].st = "new"
  /\ r > 1 => req[r - 1].st # "new"
  /\ req' = [req EXCEPT ![r] = [@ EXCEPT !.st = "inflight", !.attempts = 1,
                                          !.hdr = Headers(sessionId)]]
  /\ UNCHANGED <<sessionId, credentials, relogging, login, nextToken, engineVars, streamVars, toolVars, siteVars, moreVars>>

\* requestFn resolved: _withRetry returns its result.
ResponseOk(r) ==
  /\ req[r].st = "inflight"
  /\ req' = [req EXCEPT ![r] = [@ EXCEPT !.st = "ok"]]
  /\ UNCHANGED <<sessionId, credentials, relogging, login, nextToken, engineVars, streamVars, toolVars, siteVars, moreVars>>

\* requestFn rejected with the error of response e.  The failure of the
\* first attempt is caught by _withRetry, which may start _relogin(); _relogin
\* runs up to the first await of login().  The failure of the retry propagates.
ResponseError(r, e) ==
  LET msg == HandleResponseMessage(e)
      fail(why) == [req EXCEPT ![r] = [@ EXCEPT !.st = "failed", !.thrown = e,
                                                !.why = why,
                                                !.err1 = IF req[r].attempts = 1
                                                         THEN e ELSE @]]
  IN
  /\ req[r].st = "inflight"
  /\ IF ~Wrapped(req[r].attempts)
     THEN /\ req' = fail("retry_failed")
          /\ UNCHANGED <<sessionId, relogging>>
     ELSE IF ~ShouldRelogin(msg, relogging)
     THEN /\ req' = fail(IF IsExpiry(msg) THEN "busy" ELSE "not_expiry")
          /\ UNCHANGED <<sessionId, relogging>>
     ELSE IF ~CanRelogin(relogging, credentials)
     THEN /\ req' = fail("no_credentials")
          /\ UNCHANGED <<sessionId, relogging>>
     ELSE /\ relogging' = TRUE
          /\ sessionId' = ReloginSession(sessionId)
          /\ req' = [req EXCEPT ![r] = [@ EXCEPT !.st = "relogin",
                                                  !.relogins = @ + 1,
                                                  !.err1 = e,
                                                  !.since = nextToken]]
  /\ UNCHANGED <<credentials, login, nextToken, engineVars, streamVars, toolVars, siteVars, moreVars>>

\* _relogin() has finished with outcome ok: _relogging is cleared in the
\* finally block, and _withRetry either calls requestFn once more with the
\* headers of that moment or throws the error of the first attempt.
ReloginSettled(r, ok, sid) ==
  /\ relogging' = ReloggingAfter(ok)
  /\ req' = [req EXCEPT ![r] =
               IF RetryAfter(ok)
               THEN [@ EXCEPT !.st = "inflight",
                              !.relogin = IF ok THEN "ok" ELSE "failed",
                              !.attempts = @ + 1,
                              !.hdr = Headers(sid)]
               ELSE [@ EXCEPT !.st = "failed",
                              !.relogin = IF ok THEN "ok" ELSE "failed",
                              !.why = "relogin_failed",
                              !.thrown = req[r].err1]]

\* The login of _relogin() succeeded: the new token is stored and _relogin
\* returns true.
ReloginOk(r) ==
  /\ req[r].st = "relogin"
  /\ sessionId' = nextToken
  /\ nextToken' = nextToken + 1
  /\ issued' = Append(issued, endpoint)
  /\ ReloginSettled(r, TRUE, nextToken)
  /\ UNCHANGED <<credentials, login, endpoint, engineVars, streamVars, toolVars, moreVars>>

\* The login of _relogin() failed: _relogin returns false.
ReloginFail(r) ==
  /\ req[r].st = "relogin"
  /\ \/ sessionId' = 0
     \/ sessionId' = sessionId
  /\ ReloginSettled(r, FALSE, sessionId')
  /\ UNCHANGED <<credentials, login, nextToken, engineVars, streamVars, toolVars, siteVars, moreVars>>

NextClient ==
  \/ LoginStart
  \/ LoginOk
  \/ LoginFail
  \/ \E r \in Requests : Request(r)
  \/ \E r \in Requests : ResponseOk(r)
  \/ \E r \in Requests : \E e \in ErrorResponses : ResponseError(r, e)
  \/ \E r \in Requests : ReloginOk(r)
  \/ \E r \in Requests : ReloginFail(r)

SpecClient == InitClient /\ [][NextClient]_vars

(***************************************************************************)
(* Properties of the request wrapper.                                      *)
(***************************************************************************)
Settled(r) == req[r].st \in {"ok", "failed"}

FirstAttemptExpired(r) ==
  req[r].err1 # NoError /\ IsExpiry(HandleResponseMessage(req[r].err1))

\* C4: a request whose first attempt failed with a session-expiry error and
\* whose re-login succeeded made exactly one re-login and exactly one retry,
\* and its outcome is the retry's (its result, or the retry's error); an
\* expiry failure ends without a retry only when no credentials are cached,
\* the re-login failed, or a re-login was already in progress; no request is
\* attempted more than twice, and a login request is sent once.
C4_OneReloginOneRetry ==
  /\ \A r \in Requests :
       /\ req[r].attempts <= 2
       /\ req[r].relogins <= 1
       /\ req[r].relogin = "ok" =>
            /\ FirstAttemptExpired(r)
            /\ req[r].relogins = 1
            /\ req[r].attempts = 2
            /\ req[r].st \in {"inflight", "ok", "failed"}
            /\ req[r].st = "failed" => req[r].why = "retry_failed"
       /\ (req[r].st = "failed" /\ req[r].attempts = 1 /\ FirstAttemptExpired(r)) =>
            req[r].why \in {"no_credentials", "relogin_failed", "busy"}
       /\ req[r].attempts = 2 => req[r].relogin = "ok"
  /\ login.attempts <= 1

\* A request failed with a session-expiry error, its re-login succeeded and
\* the retry returned the result.
C4_Witness ==
  \E r \in Requests :
    /\ req[r].st = "ok"
    /\ FirstAttemptExpired(r)
    /\ req[r].relogin = "ok"
    /\ req[r].attempts = 2
    /\ credentials

\* C5: when a re-login was made and every re-login has succeeded, every
\* request whose first attempt failed with a session-expiry error while
\* credentials were cached has been retried once it is settled; none is failed
\* because another request's re-login was in progress.
C5_ConcurrentExpiryAllRetried ==
  (/\ ~relogging
   /\ \E q \in Requests : req[q].relogin = "ok"
   /\ \A q \in Requests : req[q].relogin # "failed") =>
    \A r \in Requests :
      (Settled(r) /\ FirstAttemptExpired(r) /\ req[r].why # "no_credentials") =>
        req[r].attempts = 2

\* C12: a first attempt sent with a token (so credentials are cached) and
\* answered with status 401 or 403 while no re-login is in progress starts a
\* re-login, whatever the text of the error.
C12_StatusDrivesRelogin ==
  \A r \in Requests :
    (/\ Settled(r)
     /\ req[r].hdr # 0
     /\ req[r].err1.status \in {"401", "403"}
     /\ req[r].why \notin {"busy", "no_credentials"}) => req[r].relogins = 1

\* C13: a request whose first attempt failed with an error that is not a
\* session expiry made no re-login and no second attempt.
C13_NonExpirySurfaced ==
  \A r \in Requests :
    (req[r].err1 # NoError /\ ~IsSessionExpired(req[r].err1)) =>
      (req[r].relogins = 0 /\ req[r].attempts = 1)

InitStream ==
  /\ messages = <<>>
  /\ provider \in Providers
  /\ script = "free"
  /\ queryMode = "compact"
  /\ model = "m1"
  /\ EngineIdle
  /\ ClientIdle
  /\ ToolIdle
  /\ OthersIdle
  /\ texts \in {t \in [Blocks -> UNION {{TextOf(c, sh) : sh \in Shapes} : c \in Blocks}] :
                  \A c \in Blocks : t[c][1].call = c}
  /\ progress = [c \in Blocks |-> [st |-> "unsent", pos |-> 0, frags |-> 0]]
  /\ blocks = [c \in Blocks |-> NoBlock]
  /\ currentBlockIndex = 0
  /\ inputJsonStr = <<>>
  /\ spc = "reading"
  /\ dispatched = [c \in Blocks |-> EmptyObject]
  /\ interleaved = FALSE
  /\ lines = NoLines

Open(c) == progress[c].st = "open"

\* The event that opens call c: a delta with index, id and name for the
\* OpenAI-compatible adapter, content_block_start for the Anthropic adapter.
SCallStart(c) ==
  /\ spc = "reading"
  /\ progress[c].st = "unsent"
  /\ c > 1 => progress[c - 1].st # "unsent"
  /\ progress' = [progress EXCEPT ![c].st = "open"]
  /\ interleaved' = (interleaved \/ \E d \in Blocks \ {c} : Open(d))
  /\ blocks' = [blocks EXCEPT ![c] = [exists |-> TRUE, arguments |-> <<>>,
                                       input |-> EmptyObject]]
  /\ IF IsAnthropic(provider)
     THEN /\ currentBlockIndex' = c
          /\ inputJsonStr' = <<>>
     ELSE UNCHANGED <<currentBlockIndex, inputJsonStr>>
  /\ UNCHANGED <<texts, spc, dispatched, lines, engineVars, clientVars, toolVars, siteVars, moreVars>>

\* The next n characters of call c's argument text arrive: a delta with
\* function.arguments, or an input_json_delta.
SFragment(c, n) ==
  LET from == progress[c].pos + 1
      to == progress[c].pos + n
      fragment == SubSeq(texts[c], from, to)
  IN
  /\ spc = "reading"
  /\ Open(c)
  /\ to <= Len(texts[c])
  /\ progress' = [progress EXCEPT ![c].pos = to,
                                  ![c].frags = IF @ < 2 THEN @ + 1 ELSE @,
                                  ![c].st = IF ~IsAnthropic(provider) /\ to = Len(texts[c])
                                            THEN "closed" ELSE @]
  /\ IF IsAnthropic(provider)
     THEN /\ inputJsonStr' = Accumulate(inputJsonStr, fragment)
          /\ UNCHANGED blocks
     ELSE /\ blocks' = [blocks EXCEPT ![c].arguments = Accumulate(@, fragment)]
          /\ UNCHANGED inputJsonStr
  /\ UNCHANGED <<texts, currentBlockIndex, spc, dispatched, interleaved,
                 lines, engineVars, clientVars, toolVars, siteVars, moreVars>>

\* content_block_stop of call c, all of whose text has been sent.
SBlockStop(c) ==
  /\ spc = "reading"
  /\ IsAnthropic(provider)
  /\ Open(c)
  /\ progress[c].pos = Len(texts[c])
  /\ progress' = [progress EXCEPT ![c].st = "closed"]
  /\ IF currentBlockIndex # 0 /\ blocks[currentBlockIndex].exists
     THEN /\ blocks' = [blocks EXCEPT ![currentBlockIndex].input =
                                         ParseBlockInput(inputJsonStr)]
          /\ inputJsonStr' = <<>>
     ELSE UNCHANGED <<blocks, inputJsonStr>>
  /\ UNCHANGED <<texts, currentBlockIndex, spc, dispatched, interleaved,
                 lines, engineVars, clientVars, toolVars, siteVars, moreVars>>

\* The stream ends; the adapter returns the calls and chat() takes the
\* arguments of each: JSON.parse(tc.function.arguments), or tc.input.
SStreamEnd ==
  /\ spc = "reading"
  /\ \A c \in Blocks : progress[c].st \in {"unsent", "closed"}
  /\ \E c \in Blocks : progress[c].st = "closed"
  /\ spc' = "returned"
  /\ dispatched' = [c \in Blocks |->
                      IF ~blocks[c].exists THEN EmptyObject
                      ELSE IF IsAnthropic(provider) THEN blocks[c].input
                      ELSE JsonValue(blocks[c].arguments)]
  /\ UNCHANGED <<texts, progress, blocks, currentBlockIndex, inputJsonStr, interleaved,
                 lines, engineVars, clientVars, toolVars, siteVars, moreVars>>

NextStream ==
  \/ \E c \in Blocks : SCallStart(c)
  \/ \E c \in Blocks : \E n \in 1..4 : SFragment(c, n)
  \/ \E c \in Blocks : SBlockStop(c)
  \/ SStreamEnd

SpecStream == InitStream /\ [][NextStream]_vars

\* The calls the adapter returned.
Returned == {c \in Blocks : progress[c].st = "closed"}

\* C18: whatever the interleaving of the events of different calls, the
\* arguments reconstructed for each call are those of its own argument text.
C18_FragmentsPerCall ==
  spc = "returned" => \A c \in Returned : dispatched[c] = JsonValue(texts[c])

\* C20: when the events of each call are not interleaved with those of another
\* call, the arguments passed to Tool Dispatch are the JSON value of the
\* concatenation of the call's fragments, however the text was split.
C20_FragmentsConcatenate ==
  (spc = "returned" /\ ~interleaved) =>
    \A c \in Returned : dispatched[c] = JsonValue(texts[c])

\* C20 witness: an Anthropic call whose text came in several fragments, after
\* another call.
C20_Witness ==
  /\ spc = "returned"
  /\ ~interleaved
  /\ IsAnthropic(provider)
  /\ progress[2].st = "closed"
  /\ progress[2].frags = 2
  /\ dispatched[2].members # <<>>

\* C21: a request is sent a second time only after its own re-login, started
\* after the failure of its first attempt, has succeeded: the retry carries
\* a token issued after that failure, and a request whose re-login is pending
\* or has failed has been sent once only.
C21_RetryOnlyAfterSuccessfulRelogin ==
  \A r \in Requests :
    /\ req[r].attempts >= 2 =>
         /\ req[r].relogin = "ok"
         /\ req[r].err1 # NoError
         /\ req[r].hdr # 0
         /\ req[r].hdr >= req[r].since
    /\ req[r].st = "relogin" => req[r].attempts = 1
    /\ req[r].relogin = "failed" => (req[r].attempts = 1 /\ req[r].st = "failed")

\* Two requests failed with a session expiry while in flight together: one
\* was retried after its re-login, the other met the re-login in progress.
C21_Witness ==
  \E r, q \in Requests :
    /\ r # q
    /\ req[r].attempts = 2 /\ req[r].relogin = "ok"
    /\ req[q].st = "failed" /\ req[q].why = "busy"

\* C22: at most one re-login is in flight, and _relogging is set exactly
\* while one is: an expiry error met while the flag is set starts no login,
\* and the flag is clear once the re-login has finished either way.
C22_OneReloginInFlight ==
  /\ Cardinality({r \in Requests : req[r].st = "relogin"}) <= 1
  /\ relogging <=> (\E r \in Requests : req[r].st = "relogin")

\* A re-login is in flight and another request has failed with an expiry
\* error meanwhile without starting a login.
C22_Witness ==
  \E r, q \in Requests :
    /\ r # q
    /\ relogging /\ req[r].st = "relogin"
    /\ req[q].st = "failed" /\ req[q].why = "busy" /\ req[q].relogins = 0
    /\ req[q].since = 0

(***************************************************************************)
(* _executeTool, one call at a time: the name, the resource path and the    *)
(* state of the client are given; the client call, when one is made,       *)
(* resolves or throws.                                                     *)
(***************************************************************************)
\* The client after a login: it holds the first token.
ClientLoggedIn ==
  /\ sessionId = 1
  /\ credentials = TRUE
  /\ relogging = FALSE
  /\ req = [r \in Requests |-> NewRequest]
  /\ login = [st |-> "ok", attempts |-> 1, why |-> ""]
  /\ nextToken = 2
  /\ issued = <<"a">>

\* The client while _relogin awaits its login: the first request failed with
\* a session expiry, the token has been cleared and the flag is set.
ClientRelogging ==
  /\ sessionId = 0
  /\ credentials = TRUE
  /\ relogging = TRUE
  /\ req = [r \in Requests |->
             IF r = 1
             THEN [NewRequest EXCEPT !.st = "relogin", !.attempts = 1, !.relogins = 1,
                                     !.hdr = 1, !.since = 2,
                                     !.err1 = [status |-> "401",
                                               details |-> <<"Session", "expired">>]]
             ELSE NewRequest]
  /\ login = [st |-> "ok", attempts |-> 1, why |-> ""]
  /\ nextToken = 2
  /\ issued = <<"a">>

InitTool ==
  /\ messages = <<>>
  /\ provider = "openai"
  /\ script = "free"
  /\ queryMode = "compact"
  /\ model = "m1"
  /\ EngineIdle
  /\ StreamIdle
  /\ endpoint = "a"
  /\ GetIdle
  /\ ConnectIdle
  /\ ReadsIdle
  /\ \/ ClientIdle /\ issued = <<>>
     \/ ClientLoggedIn
     \/ ClientRelogging
  /\ tName \in DispatchTable \cup UnknownNames
  /\ tPath \in (IF tName \in GenericTools THEN Paths ELSE {<<>>})
  /\ \E cli \in BOOLEAN : tConnected = Connected(cli, sessionId)
  /\ tSent = NoCall
  /\ tResult = NoResult
  /\ tpc = "called"

\* _executeTool up to its first await: the connection test, then the switch.
ToolDispatch ==
  /\ tpc = "called"
  /\ IF ~tConnected
     THEN /\ tResult' = NotConnectedPayload
          /\ tpc' = "settled"
          /\ UNCHANGED tSent
     ELSE IF tName \notin DispatchTable
     THEN /\ tResult' = UnknownToolPayload(tName)
          /\ tpc' = "settled"
          /\ UNCHANGED tSent
     ELSE /\ tSent' = ClientCall(tName, tPath)
          /\ tpc' = "awaiting"
          /\ UNCHANGED tResult
  /\ UNCHANGED <<tName, tPath, tConnected, engineVars, clientVars, streamVars, siteVars, moreVars>>

\* The client call resolves or throws; a throw is caught.
ToolClientSettles ==
  /\ tpc = "awaiting"
  /\ \E o \in {"ok", "throw", "reauth_failed"} :
       /\ tResult' = ToolPayload(o)
       /\ tSent' = [tSent EXCEPT !.outcome = o]
  /\ tpc' = "settled"
  /\ UNCHANGED <<tName, tPath, tConnected, engineVars, clientVars, streamVars, siteVars, moreVars>>

NextTool ==
  \/ ToolDispatch
  \/ ToolClientSettles

SpecTool == InitTool /\ [][NextTool]_vars

C29_FixPathIdempotent ==
  /\ FixPath(FixPath(tPath)) = FixPath(tPath)
  /\ (tSent.made /\ tName \in GenericTools) =>
       /\ (tPath # <<>> /\ ~StartsWith(tPath, <<"v", "1", "/">>)) =>
            tSent.path = <<"v", "1", "/">> \o tPath
       /\ StartsWith(tPath, <<"v", "1", "/">>) => tSent.path = tPath
       /\ FixPath(tSent.path) = tSent.path

\* 'v1' without the slash lacks the prefix: the client is called with 'v1/v1'.
C29_Witness ==
  /\ tName = "zstack_get"
  /\ tPath = <<"v", "1">>
  /\ tSent.made
  /\ tSent.path = <<"v", "1", "/", "v", "1">>

(***************************************************************************)
(* The line loop of the adapters: besides the events of the tool calls the *)
(* stream carries a text delta and lines that are no event.  Every call    *)
(* has the argument text {x}.                                              *)
(***************************************************************************)
InitLines ==
  /\ messages = <<>>
  /\ provider \in Providers
  /\ script = "free"
  /\ queryMode = "compact"
  /\ model = "m1"
  /\ EngineIdle
  /\ ClientIdle
  /\ ToolIdle
  /\ OthersIdle
  /\ texts = [c \in Blocks |-> TextOf(c, <<"{", "x", "}">>)]
  /\ progress = [c \in Blocks |-> [st |-> "unsent", pos |-> 0, frags |-> 0]]
  /\ blocks = [c \in Blocks |-> NoBlock]
  /\ currentBlockIndex = 0
  /\ inputJsonStr = <<>>
  /\ spc = "reading"
  /\ dispatched = [c \in Blocks |-> EmptyObject]
  /\ interleaved = FALSE
  /\ lines = NoLines

\* A line of kind `kind` is read: it is passed over, or the adapter throws.
SLine(kind) ==
  /\ spc = "reading"
  /\ IF LineOutcome(kind) = "skip"
     THEN /\ lines' = [lines EXCEPT !.skipped = @ \cup {kind}]
          /\ UNCHANGED spc
     ELSE /\ lines' = [lines EXCEPT !.fatal = kind]
          /\ spc' = "failed"
  /\ UNCHANGED <<texts, progress, blocks, currentBlockIndex, inputJsonStr, dispatched,
                 interleaved, engineVars, clientVars, toolVars, siteVars, moreVars>>

\* The text delta of the response is read: content += delta.content.
STextDelta ==
  /\ spc = "reading"
  /\ lines.text = 0
  /\ lines' = [lines EXCEPT !.text = @ + 1]
  /\ UNCHANGED <<texts, progress, blocks, currentBlockIndex, inputJsonStr, spc,
                 dispatched, interleaved, engineVars, clientVars, toolVars, siteVars, moreVars>>

NextLines ==
  \/ \E c \in Blocks : SCallStart(c)
  \/ \E c \in Blocks : \E n \in 1..4 : SFragment(c, n)
  \/ \E c \in Blocks : SBlockStop(c)
  \/ SStreamEnd
  \/ \E kind \in LineKinds : SLine(kind)
  \/ STextDelta

SpecLines == InitLines /\ [][NextLines]_vars

\* C30: a line whose payload is not JSON never makes the adapter throw, the
\* step that reads it leaves the accumulated text and tool calls as they
\* were, and a stream that had such a line and whose calls were sent one
\* after the other still yields the arguments of every call.
C30_MalformedLineSkipped ==
  [][ /\ lines'.fatal # "not_json"
      /\ lines'.skipped # lines.skipped =>
           /\ lines'.text = lines.text
           /\ UNCHANGED <<blocks, inputJsonStr, currentBlockIndex, progress, spc, dispatched>>
      /\ (spc' = "returned" /\ "not_json" \in lines'.skipped /\ ~interleaved') =>
           \A c \in Blocks :
             progress'[c].st = "closed" => dispatched'[c] = JsonValue(texts'[c])
    ]_vars

\* A line that is not JSON came between the fragments of a call, after the
\* text delta; the stream was read to its end.
C30_Witness ==
  /\ spc = "returned"
  /\ "not_json" \in lines.skipped
  /\ lines.text = 1
  /\ ~interleaved
  /\ progress[1].frags = 2
  /\ dispatched[1].members # <<>>

(***************************************************************************)
(* get(resourcePath, uuid), one call: the server's response data is given. *)
(***************************************************************************)
InitGet ==
  /\ messages = <<>>
  /\ provider = "openai"
  /\ script = "free"
  /\ queryMode = "compact"
  /\ model = "m1"
  /\ EngineIdle
  /\ ClientIdle
  /\ StreamIdle
  /\ ToolIdle
  /\ SiteIdle
  /\ ConnectIdle
  /\ ReadsIdle
  /\ \E inv \in Entities \cup {NoEntity} : \E coll \in Collections :
       getCall = [pc |-> "awaiting",
                  data |-> [inventory |-> inv, inventories |-> coll],
                  returned |-> NoEntity]

\* _get resolved with the data: get() fills in the single-entity field and
\* returns the data.
GetReturns ==
  /\ getCall.pc = "awaiting"
  /\ getCall' = [getCall EXCEPT !.pc = "returned", !.returned = GetEntity(getCall.data)]
  /\ UNCHANGED <<connect, reads, engineVars, clientVars, streamVars, toolVars, siteVars>>

\* _get threw: get() throws.
GetThrows ==
  /\ getCall.pc = "awaiting"
  /\ getCall' = [getCall EXCEPT !.pc = "threw"]
  /\ UNCHANGED <<connect, reads, engineVars, clientVars, streamVars, toolVars, siteVars>>

NextGet ==
  \/ GetReturns
  \/ GetThrows

SpecGet == InitGet /\ [][NextGet]_vars

\* C31: the entity get() returns in the single-entity field is the
\* response's own single entity when it has one, whatever the collection
\* holds; otherwise the only member of a one-member collection, the same
\* entity a response with that entity in the single field yields; and no
\* entity when the collection is empty or absent.
C31_GetSingleEntity ==
  getCall.pc = "returned" =>
    LET d == getCall.data IN
    /\ d.inventory # NoEntity => getCall.returned = d.inventory
    /\ (d.inventory = NoEntity /\ d.inventories.present /\ Len(d.inventories.items) = 1) =>
         /\ getCall.returned = d.inventories.items[1]
         /\ getCall.returned =
              GetEntity([inventory |-> d.inventories.items[1],
                         inventories |-> [present |-> FALSE, items |-> <<>>]])
    /\ (d.inventory = NoEntity /\ (~d.inventories.present \/ d.inventories.items = <<>>)) =>
         getCall.returned = NoEntity

\* Both fields were present and named different entities.
C31_Witness ==
  /\ getCall.pc = "returned"
  /\ getCall.data.inventory = "e1"
  /\ getCall.data.inventories.items = <<"e2">>
  /\ getCall.returned = "e1"

(***************************************************************************)
(* configure() and login() called one after the other by the application,  *)
(* with no other request in flight.                                        *)
(***************************************************************************)
\* Number of sessions the server issues.
MaxLogins == 3

InitLogin ==
  /\ messages = <<>>
  /\ provider = "openai"
  /\ script = "free"
  /\ queryMode = "compact"
  /\ model = "m1"
  /\ EngineIdle
  /\ ClientIdle
  /\ StreamIdle
  /\ ToolIdle
  /\ OthersIdle

\* configure(endpoint), between two logins.
ConfigureEndpoint(e) ==
  /\ login.st = "idle"
  /\ e # endpoint
  /\ endpoint' = e
  /\ UNCHANGED <<issued, engineVars, clientVars, streamVars, toolVars, moreVars>>

\* login() has returned or thrown; the application may call it again.
LoginReturned ==
  /\ login.st \in {"ok", "failed"}
  /\ nextToken <= MaxLogins
  /\ login' = NoLogin
  /\ UNCHANGED <<sessionId, credentials, relogging, req, nextToken, engineVars,
                 streamVars, toolVars, siteVars, moreVars>>

NextLogin ==
  \/ \E e \in Endpoints : ConfigureEndpoint(e)
  \/ LoginStart
  \/ LoginOk
  \/ LoginFail
  \/ LoginReturned

SpecLogin == InitLogin /\ [][NextLogin]_vars

C37_FailedLoginHoldsNoToken ==
  login.st = "failed" => sessionId = 0

\* C33: whenever a request is issued, first attempt or retry, it carries the
\* token the client holds at that moment, and no Authorization header when
\* it holds none; so a request issued after a re-login installed a new
\* token never carries the one that was replaced.
C33_RequestCarriesCurrentToken ==
  [][ \A r \in Requests :
        req'[r].attempts > req[r].attempts =>
          /\ req'[r].hdr = (IF IsLoggedIn(sessionId') THEN sessionId' ELSE 0)
          /\ req[r].relogin # req'[r].relogin =>
               /\ req'[r].hdr = Len(issued')
               /\ req'[r].hdr > req[r].hdr
    ]_vars

\* A request sent with the first token was retried with the token of its
\* re-login, and another request had been sent while no token was held.
C33_Witness ==
  \E r, q \in Requests :
    /\ r # q
    /\ req[r].attempts = 2
    /\ req[r].relogin = "ok"
    /\ req[r].hdr = sessionId
    /\ req[r].hdr >= 2
    /\ req[q].attempts = 1
    /\ req[q].hdr = 0

(***************************************************************************)
(* connectZStack in the side panel, one attempt after the other.           *)
(***************************************************************************)
InitConnect ==
  /\ messages = <<>>
  /\ provider = "openai"
  /\ script = "free"
  /\ queryMode = "compact"
  /\ model = "m1"
  /\ EngineIdle
  /\ ClientIdle
  /\ StreamIdle
  /\ ToolIdle
  /\ OthersIdle

\* connectZStack up to its first await: the form is read and tested, the
\* client is configured and login() is called.
ConnectZStack(f) ==
  /\ connect.pc # "login"
  /\ IF FormComplete(f)
     THEN /\ connect' = [connect EXCEPT !.pc = "login", !.form = f]
          /\ endpoint' = f.endpoint
     ELSE /\ connect' = [connect EXCEPT !.pc = "invalid", !.form = f]
          /\ UNCHANGED endpoint
  /\ UNCHANGED <<issued, getCall, reads, engineVars, clientVars, streamVars, toolVars>>

\* login() resolved (ok) or threw: the environment is saved, or the catch
\* block reports the failure and returns.
ConnectSettled(ok) ==
  /\ connect.pc = "login"
  /\ LET c == [connect EXCEPT !.pc = IF ok THEN "saved" ELSE "failed"]
     IN connect' = IF SaveAfter(ok) THEN SavedConnection(c) ELSE c
  /\ UNCHANGED <<getCall, reads, engineVars, clientVars, streamVars, toolVars, siteVars>>

NextConnect ==
  \/ \E f \in Forms : ConnectZStack(f)
  \/ \E ok \in BOOLEAN : ConnectSettled(ok)

SpecConnect == InitConnect /\ [][NextConnect]_vars

\* C34: the environment list, the current-environment index and the stored
\* connection settings change only in the step in which login() resolved;
\* an attempt whose login fails, or whose form is incomplete, leaves all
\* three as they were.
C34_SaveOnlyAfterLogin ==
  [][ \/ /\ connect'.environments = connect.environments
         /\ connect'.currentEnvId = connect.currentEnvId
         /\ connect'.stored = connect.stored
      \/ /\ connect.pc = "login"
         /\ connect'.pc = "saved"
    ]_vars

\* With one environment saved, the connection to another endpoint failed.
C34_Witness ==
  /\ connect.pc = "failed"
  /\ Len(connect.environments) = 1
  /\ connect.currentEnvId = 1
  /\ connect.form.endpoint # connect.environments[1].endpoint
  /\ connect.stored = connect.environments[1]

\* C35: when the engine has no client, or the client holds no session token
\* (as it does while a re-login awaits its login), _executeTool makes no
\* client call: whatever the tool name, it returns the 'not connected' error
\* payload and throws nothing.
C35_NotConnectedNoCall ==
  (~tConnected \/ ~IsLoggedIn(sessionId)) =>
    /\ tSent = NoCall
    /\ tResult.how # "thrown"
    /\ tpc \in {"called", "settled"}
    /\ tpc = "settled" => tResult = NotConnectedPayload

\* A tool of the switch was called on a client whose re-login is in progress.
C35_Witness ==
  /\ tpc = "settled"
  /\ relogging
  /\ sessionId = 0
  /\ tName = "zstack_query"
  /\ tPath # <<>>
  /\ tResult = NotConnectedPayload
  /\ ~tSent.made

(***************************************************************************)
(* The read loop of the streaming adapters: the response body arrives in   *)
(* reads of any size; the text is cut into lines at the newlines and the   *)
(* data lines are processed.                                               *)
(***************************************************************************)
\* Longest response body the model reads.
MaxStreamLen == 4

\* Characters of a response body: two characters of a data line, and the
\* newline.
StreamChars == {"x", "y", "nl"}
StreamTexts == UNION {[1..n -> StreamChars] : n \in 0..MaxStreamLen}

\* buffer.split('\n')
RECURSIVE SplitLines(_)
SplitLines(s) ==
  IF \A k \in 1..Len(s) : s[k] # "nl" THEN <<s>>
  ELSE LET k == CHOOSE j \in 1..Len(s) :
                  s[j] = "nl" /\ \A h \in 1..(j - 1) : s[h] # "nl"
       IN <<SubSeq(s, 1, k - 1)>> \o SplitLines(SubSeq(s, k + 1, Len(s)))

\* The loop body skips an empty line; any other line of the model is a data
\* line.
IsDataLine(line) == line # <<>>

InitReads ==
  /\ messages = <<>>
  /\ provider = "openai"
  /\ script = "free"
  /\ queryMode = "compact"
  /\ model = "m1"
  /\ EngineIdle
  /\ ClientIdle
  /\ StreamIdle
  /\ ToolIdle
  /\ SiteIdle
  /\ GetIdle
  /\ ConnectIdle
  /\ \E s \in StreamTexts : reads = [NoReads EXCEPT !.pc = "reading", !.stream = s]

\* reader.read() resolves with the next n characters: they are appended to
\* the buffer, the buffer is split, its last piece is kept and the lines
\* before it are processed.
ReadValue(n) ==
  /\ reads.pc = "reading"
  /\ reads.pos + n <= Len(reads.stream)
  /\ LET value == SubSeq(reads.stream, reads.pos + 1, reads.pos + n)
         ls == SplitLines(reads.buffer \o value)
     IN reads' = [reads EXCEPT
                    !.pos = reads.pos + n,
                    !.buffer = ls[Len(ls)],
                    !.processed = reads.processed \o
                                    SelectSeq(SubSeq(ls, 1, Len(ls) - 1), IsDataLine)]
  /\ UNCHANGED <<getCall, connect, engineVars, clientVars, streamVars, toolVars, siteVars>>

\* reader.read() resolves with done: the loop is left.
ReadDone ==
  /\ reads.pc = "reading"
  /\ reads.pos = Len(reads.stream)
  /\ reads' = [reads EXCEPT !.pc = "done"]
  /\ UNCHANGED <<getCall, connect, engineVars, clientVars, streamVars, toolVars, siteVars>>

NextReads ==
  \/ \E n \in 1..MaxStreamLen : ReadValue(n)
  \/ ReadDone

SpecReads == InitReads /\ [][NextReads]_vars

\* C38: when the body has been read to its end, the data lines processed are
\* the data lines of the body, each once and in order, however the body was
\* split into reads and also when the last line has no newline after it.
C38_EveryEventOnce ==
  reads.pc = "done" =>
    reads.processed = SelectSeq(SplitLines(reads.stream), IsDataLine)

====
